---- MODULE Spec2Model ----
(***************************************************************************)
(* Model of set-game-solver: the card model of src/core.rs (Card, its      *)
(* arithmetic, the CardProperties conversions, DECK, Triple::is_set) and   *)
(* the Table life cycle (new, new_from_seed, deal) driven by the dealing   *)
(* loop of src/bin/sgs.rs.                                                 *)
(*                                                                         *)
(* Two specifications share the module:                                    *)
(*   SpecCore  - the pure functions of core.rs, one call per behaviour;    *)
(*   Spec      - a Table from construction through repeated deals.         *)
(***************************************************************************)
EXTENDS Integers, Sequences, FiniteSets, TLC

VARIABLES
    call,       \* SpecCore: the last call made to a function of core.rs
    ctor,       \* which constructor built the table, and its argument
    deck,       \* Table.deck
    board,      \* Table.board
    ret,        \* what the last deal() returned
    ndeals,     \* how many times deal() has been called
    pc          \* position of the dealing loop: "idle" or "match"

vars == <<call, ctor, deck, board, ret, ndeals, pc>>
tableVars == <<ctor, deck, board, ret, ndeals, pc>>

----------------------------------------------------------------------------
(* Bounds of the model *)

\* seeds tried by new_from_seed are 0 .. NumSeeds-1
NumSeeds == 3
\* Table::new is given vectors of at most MaxNewLen cards ...
MaxNewLen == 3
\* ... drawn from the first PoolSize cards of DECK (and the whole DECK itself)
PoolSize == 3
\* deal() is called at most this many times after the deck has run out
MaxExtraDeals == 3

----------------------------------------------------------------------------
(* Constants of core.rs *)

DECK_SIZE == 81
RANK_BASE == 3
RANK_COLOR == RANK_BASE * RANK_BASE * RANK_BASE
RANK_COUNT == RANK_BASE * RANK_BASE
RANK_SHADE == RANK_BASE

\* u8::MAX
U8_MAX == 255
U8 == 0 .. U8_MAX

\* Option<T>
None == <<>>
Some(x) == <<x>>

\* The outcome of a call that may panic: no value, or the value returned.
Panic == <<>>
Ok(x) == <<x>>
IsOk(r) == Len(r) = 1
Val(r) == r[1]

----------------------------------------------------------------------------
(* Card arithmetic *)

\* a subtraction without the branch that adds DECK_SIZE: self.0 - other.0
sub_unguarded(x, y, checks) ==
    IF x < y
    THEN IF checks THEN Panic ELSE Ok((x - y) % (U8_MAX + 1))
    ELSE Ok(x - y)

\* impl Sub for Card.  u8 addition overflows above u8::MAX: with overflow
\* checks the call panics, without them the sum wraps.
sub(x, y, checks) ==
    LET lhs == IF x < y THEN x + DECK_SIZE ELSE x
    IN  IF lhs > U8_MAX
        THEN IF checks THEN Panic
             ELSE Ok(((lhs % (U8_MAX + 1)) - y) % (U8_MAX + 1))
        ELSE Ok(lhs - y)

----------------------------------------------------------------------------
(* The attribute enums and their FromPrimitive / ToPrimitive derives *)

Color_from_u8(v) ==
    CASE v = 0 -> Some("Red") [] v = 1 -> Some("Green") [] v = 2 -> Some("Purple")
      [] OTHER -> None
Count_from_u8(v) ==
    CASE v = 0 -> Some("One") [] v = 1 -> Some("Two") [] v = 2 -> Some("Three")
      [] OTHER -> None
Shade_from_u8(v) ==
    CASE v = 0 -> Some("Solid") [] v = 1 -> Some("Striped") [] v = 2 -> Some("Open")
      [] OTHER -> None
Shape_from_u8(v) ==
    CASE v = 0 -> Some("Diamond") [] v = 1 -> Some("Squiggle") [] v = 2 -> Some("Oval")
      [] OTHER -> None

Color_to_u8(c) == CASE c = "Red" -> 0 [] c = "Green" -> 1 [] c = "Purple" -> 2
Count_to_u8(c) == CASE c = "One" -> 0 [] c = "Two" -> 1 [] c = "Three" -> 2
Shade_to_u8(s) == CASE s = "Solid" -> 0 [] s = "Striped" -> 1 [] s = "Open" -> 2
Shape_to_u8(s) == CASE s = "Diamond" -> 0 [] s = "Squiggle" -> 1 [] s = "Oval" -> 2

Colors == {"Red", "Green", "Purple"}
Counts == {"One", "Two", "Three"}
Shades == {"Solid", "Striped", "Open"}
Shapes == {"Diamond", "Squiggle", "Oval"}

\* struct CardProperties
CardProperties == [color : Colors, count : Counts, shade : Shades, shape : Shapes]

----------------------------------------------------------------------------
(* Conversions between Card and CardProperties *)

\* impl From<CardProperties> for Card
Card_from(p) ==
    (Color_to_u8(p.color) * RANK_COLOR)
    + (Count_to_u8(p.count) * RANK_COUNT)
    + (Shade_to_u8(p.shade) * RANK_SHADE)
    + Shape_to_u8(p.shape)

\* a decoder that reads shade and shape from each other's digit
CardProperties_from_swapped(n) ==
    LET color == Color_from_u8(n \div RANK_COLOR)
        r1    == n % RANK_COLOR
        count == Count_from_u8(r1 \div RANK_COUNT)
        r2    == r1 % RANK_COUNT
        shade == Shade_from_u8(r2 % RANK_SHADE)
        shape == Shape_from_u8(r2 \div RANK_SHADE)
    IN  IF color = None \/ count = None \/ shade = None \/ shape = None
        THEN Panic
        ELSE Ok([color |-> color[1], count |-> count[1],
                 shade |-> shade[1], shape |-> shape[1]])

\* a decoder that reduces the color digit instead of rejecting it
CardProperties_from_wrapping(n) ==
    LET color == Color_from_u8((n \div RANK_COLOR) % RANK_BASE)
        r1    == n % RANK_COLOR
        count == Count_from_u8(r1 \div RANK_COUNT)
        r2    == r1 % RANK_COUNT
        shade == Shade_from_u8(r2 \div RANK_SHADE)
        shape == Shape_from_u8(r2 % RANK_SHADE)
    IN  IF color = None \/ count = None \/ shade = None \/ shape = None
        THEN Panic
        ELSE Ok([color |-> color[1], count |-> count[1],
                 shade |-> shade[1], shape |-> shape[1]])

\* impl From<Card> for CardProperties: every expect() panics on None
CardProperties_from(n) ==
    LET color == Color_from_u8(n \div RANK_COLOR)
        r1    == n % RANK_COLOR
        count == Count_from_u8(r1 \div RANK_COUNT)
        r2    == r1 % RANK_COUNT
        shade == Shade_from_u8(r2 \div RANK_SHADE)
        shape == Shape_from_u8(r2 % RANK_SHADE)
    IN  IF color = None \/ count = None \/ shade = None \/ shape = None
        THEN Panic
        ELSE Ok([color |-> color[1], count |-> count[1],
                 shade |-> shade[1], shape |-> shape[1]])

\* the body of tests::card_properties_roundtrip_exhaustive for one card
roundtrip(n) ==
    LET p == CardProperties_from(n)
    IN  IF IsOk(p) THEN Ok(Card_from(Val(p))) ELSE Panic

----------------------------------------------------------------------------
(* DECK *)

\* a deck built from the range 1..DECK_SIZE instead of 0..DECK_SIZE
DECK_from_one == [i \in 1 .. (DECK_SIZE - 1) |-> i]

\* pub static DECK: (0..DECK_SIZE).map(Card).collect()
DECK == [i \in 1 .. DECK_SIZE |-> i - 1]

\* the cards a caller can hold: Card's field is private, so the elements of DECK
Cards == 0 .. (DECK_SIZE - 1)

----------------------------------------------------------------------------
(* Triple::is_set *)

\* cards.sort() on the three-element array
sort3(t) ==
    LET swap(s, i, j) == IF s[i] > s[j]
                         THEN [s EXCEPT ![i] = s[j], ![j] = s[i]] ELSE s
    IN  swap(swap(swap(t, 1, 2), 2, 3), 1, 2)

\* the comparison `*a - *b == *b - *c`
sub_eq(a, b, c, checks) ==
    LET d1 == sub(a, b, checks)
        d2 == sub(b, c, checks)
    IN  IF IsOk(d1) /\ IsOk(d2) THEN Ok(Val(d1) = Val(d2)) ELSE Panic

\* is_set without the sort
is_set_unsorted(t, checks) == sub_eq(t[1], t[2], t[3], checks)

\* is_set that refuses a repeated card
is_set_strict(t, checks) ==
    LET s == sort3(t)
        r == sub_eq(s[1], s[2], s[3], checks)
    IN  IF IsOk(r) THEN Ok(Val(r) /\ s[1] # s[2] /\ s[2] # s[3]) ELSE Panic

\* Triple::is_set
is_set(t, checks) ==
    LET s == sort3(t)
    IN  sub_eq(s[1], s[2], s[3], checks)

----------------------------------------------------------------------------
(* SpecCore: one call of a function of core.rs, made from the idle state *)

NoCall == [op |-> "none", arg |-> <<>>, ret |-> <<>>]

IsSetCall ==
    /\ call = NoCall
    /\ \E a \in Cards, b \in Cards, c \in Cards, checks \in BOOLEAN :
           call' = [op |-> "is_set", arg |-> <<a, b, c>>,
                    ret |-> is_set(<<a, b, c>>, checks)]
    /\ UNCHANGED tableVars

SubCall ==
    /\ call = NoCall
    /\ \E a \in Cards, b \in Cards, checks \in BOOLEAN :
           call' = [op |-> "sub", arg |-> <<a, b>>, ret |-> sub(a, b, checks)]
    /\ UNCHANGED tableVars

\* inside the crate Card(n) can be written for any u8
DecodeCall ==
    /\ call = NoCall
    /\ \E n \in U8 :
           call' = [op |-> "decode", arg |-> <<n>>, ret |-> CardProperties_from(n)]
    /\ UNCHANGED tableVars

EncodeCall ==
    /\ call = NoCall
    /\ \E p \in CardProperties :
           call' = [op |-> "encode", arg |-> <<p>>, ret |-> Ok(Card_from(p))]
    /\ UNCHANGED tableVars

RoundtripCall ==
    /\ call = NoCall
    /\ \E i \in 1 .. Len(DECK) :
           call' = [op |-> "roundtrip", arg |-> <<DECK[i]>>, ret |-> roundtrip(DECK[i])]
    /\ UNCHANGED tableVars

DeckCall ==
    /\ call = NoCall
    /\ call' = [op |-> "DECK", arg |-> <<>>, ret |-> Ok(DECK)]
    /\ UNCHANGED tableVars

TableIdle ==
    /\ ctor = [kind |-> "none", arg |-> <<>>]
    /\ deck = <<>>
    /\ board = <<>>
    /\ ret = None
    /\ ndeals = 0
    /\ pc = "idle"

Init ==
    /\ call = NoCall
    /\ TableIdle

NextCore ==
    \/ IsSetCall
    \/ SubCall
    \/ DecodeCall
    \/ EncodeCall
    \/ RoundtripCall
    \/ DeckCall

SpecCore == Init /\ [][NextCore]_vars

----------------------------------------------------------------------------
(* Table *)

Range(s) == {s[i] : i \in 1 .. Len(s)}
NoDup(s) == \A i \in 1 .. Len(s), j \in 1 .. Len(s) : s[i] = s[j] => i = j

\* deck.shuffle(&mut rng) with rng = Pcg64::seed_from_u64(seed).  The rand
\* crates are outside the repository: a shuffle rearranges the slice in place
\* and the seed alone decides how.  Seed s is given the rearrangement
\* i -> (3s+1)*i + s (mod len), a bijection on a slice of 81 elements.
shuffle_stride(seed) == RANK_BASE * seed + 1

\* a shuffle that samples positions with replacement
shuffle_resampling(d, seed) ==
    [i \in 1 .. Len(d) |-> d[((RANK_BASE * (seed + 1) * (i - 1) + seed) % Len(d)) + 1]]

shuffle(d, seed) ==
    [i \in 1 .. Len(d) |-> d[((shuffle_stride(seed) * (i - 1) + seed) % Len(d)) + 1]]

\* Table::new
Table_new(d) == [deck |-> d, board |-> <<>>]

\* Table::new_from_seed
Table_new_from_seed(seed) == Table_new(shuffle(DECK, seed))

\* a deal that reads the last card and leaves it in the deck
Table_deal_peek(d) ==
    IF d = <<>> THEN [deck |-> d, ret |-> None]
    ELSE [deck |-> d, ret |-> Some(d[Len(d)])]

\* a deal that takes the first card of the deck
Table_deal_front(d) ==
    IF d = <<>> THEN [deck |-> d, ret |-> None]
    ELSE [deck |-> Tail(d), ret |-> Some(Head(d))]

\* Table::deal: self.deck.pop()
Table_deal(d) ==
    IF d = <<>> THEN [deck |-> d, ret |-> None]
    ELSE [deck |-> SubSeq(d, 1, Len(d) - 1), ret |-> Some(d[Len(d)])]

\* the vectors handed to Table::new: DECK itself and every short vector
Pool == {DECK[i] : i \in 1 .. PoolSize}
SeqsUpTo(S, n) == UNION {[1 .. k -> S] : k \in 0 .. n}
NewArgs == {DECK} \cup SeqsUpTo(Pool, MaxNewLen)
Seeds == 0 .. (NumSeeds - 1)

New ==
    /\ ctor.kind = "none"
    /\ \E v \in NewArgs :
           /\ ctor' = [kind |-> "new", arg |-> v]
           /\ deck' = Table_new(v).deck
           /\ board' = Table_new(v).board
           /\ UNCHANGED <<call, ret, ndeals, pc>>

NewFromSeed ==
    /\ ctor.kind = "none"
    /\ \E seed \in Seeds :
           /\ ctor' = [kind |-> "new_from_seed", arg |-> seed]
           /\ deck' = Table_new_from_seed(seed).deck
           /\ board' = Table_new_from_seed(seed).board
           /\ UNCHANGED <<call, ret, ndeals, pc>>

\* deck.deal()
Deal ==
    /\ ctor.kind # "none"
    /\ pc = "idle"
    /\ ndeals < DECK_SIZE + MaxExtraDeals
    /\ deck' = Table_deal(deck).deck
    /\ ret' = Table_deal(deck).ret
    /\ ndeals' = ndeals + 1
    /\ pc' = "match"
    /\ UNCHANGED <<call, ctor, board>>

\* Some(card) => push(card): the caller puts the card on the board
PushDealt ==
    /\ pc = "match"
    /\ ret # None
    /\ board' = Append(board, ret[1])
    /\ pc' = "idle"
    /\ UNCHANGED <<call, ctor, deck, ret, ndeals>>

\* None => {}
SkipNone ==
    /\ pc = "match"
    /\ ret = None
    /\ pc' = "idle"
    /\ UNCHANGED <<call, ctor, deck, board, ret, ndeals>>

Next ==
    \/ New
    \/ NewFromSeed
    \/ Deal
    \/ PushDealt
    \/ SkipNone

Spec == Init /\ [][Next]_vars

----------------------------------------------------------------------------
(* The set rule, attribute by attribute, on the decoded cards *)

SameOrAllDifferent(x, y, z) ==
    \/ (x = y /\ y = z)
    \/ (x # y /\ y # z /\ x # z)

FollowsRule(t) ==
    LET p == [i \in 1 .. 3 |-> Val(CardProperties_from(t[i]))]
    IN  /\ SameOrAllDifferent(p[1].color, p[2].color, p[3].color)
        /\ SameOrAllDifferent(p[1].count, p[2].count, p[3].count)
        /\ SameOrAllDifferent(p[1].shade, p[2].shade, p[3].shade)
        /\ SameOrAllDifferent(p[1].shape, p[2].shape, p[3].shape)

\* the six orderings of three positions
Orderings ==
    {<<1, 2, 3>>, <<1, 3, 2>>, <<2, 1, 3>>, <<2, 3, 1>>, <<3, 1, 2>>, <<3, 2, 1>>}

----------------------------------------------------------------------------
(* Properties of the card model, under SpecCore *)

\* C1: three cards of DECK that are, on each of the four attributes, all
\* equal or pairwise different make is_set return true.
C1_RuleImpliesIsSet ==
    (call.op = "is_set" /\ FollowsRule(call.arg)) => call.ret = Ok(TRUE)

\* C2: three cards of DECK with exactly two equal values on some attribute
\* make is_set return false: is_set is true only if every attribute is all
\* equal or all different.
C2_MixImpliesNotSet ==
    (call.op = "is_set" /\ ~FollowsRule(call.arg)) => call.ret = Ok(FALSE)

\* C3: is_set returns the same boolean for all six orderings of its cards.
C3_OrderingInvariant ==
    call.op = "is_set" =>
        \A o \in Orderings, checks \in BOOLEAN :
            is_set(<<call.arg[o[1]], call.arg[o[2]], call.arg[o[3]]>>, checks)
                = call.ret

C3_Witness ==
    /\ call.op = "is_set"
    /\ call.arg = <<40, 0, 80>>
    /\ call.ret = Ok(TRUE)

\* C4: the same card three times is a set.
C4_SameCardIsSet ==
    (call.op = "is_set" /\ call.arg[1] = call.arg[2] /\ call.arg[2] = call.arg[3])
        => call.ret = Ok(TRUE)

C4_Witness ==
    /\ call.op = "is_set"
    /\ call.arg = <<80, 80, 80>>
    /\ call.ret = Ok(TRUE)

\* C5: every card of DECK converted to CardProperties and back is the same
\* card, and the conversion does not panic.
C5_Roundtrip ==
    call.op = "roundtrip" => call.ret = Ok(call.arg[1])

C5_Witness ==
    /\ call.op = "roundtrip"
    /\ call.arg = <<50>>
    /\ call.ret = Ok(50)

\* C6: DECK holds exactly 81 cards, no two equal, and decoding them yields
\* each of the 3*3*3*3 attribute combinations exactly once.
C6_DeckComplete ==
    call.op = "DECK" =>
        LET d == Val(call.ret)
        IN  /\ Len(d) = 81
            /\ NoDup(d)
            /\ Cardinality(CardProperties) = 81
            /\ \A p \in CardProperties :
                   Cardinality({i \in 1 .. Len(d) : CardProperties_from(d[i]) = Ok(p)}) = 1

C6_Witness ==
    /\ call.op = "DECK"
    /\ IsOk(call.ret)
    /\ Len(Val(call.ret)) = 81

\* C9: decoding Card(n) panics exactly when n >= 81: it fails for every u8
\* n >= 81 and succeeds for every n in 0..80.
C9_DecodeFailsIffOutOfRange ==
    call.op = "decode" => (call.ret = Panic <=> call.arg[1] >= 81)

C9_Witness ==
    /\ call.op = "decode"
    /\ call.arg = <<81>>
    /\ call.ret = Panic

\* C11: for cards a and b of DECK, a - b does not panic or overflow u8, also
\* when a's index is the smaller one, and is the card of index (a - b) mod 81,
\* which lies in 0..80.
C11_SubIsDifferenceMod81 ==
    call.op = "sub" =>
        /\ call.ret = Ok((call.arg[1] - call.arg[2]) % 81)
        /\ Val(call.ret) \in 0 .. 80

C11_Witness ==
    /\ call.op = "sub"
    /\ call.arg = <<0, 40>>
    /\ call.ret = Ok(41)

----------------------------------------------------------------------------
(* Properties of the Table, under Spec *)

\* the table was built on the full deck, in some order
Fresh ==
    \/ ctor.kind = "new_from_seed"
    \/ (ctor.kind = "new" /\ ctor.arg = DECK)

\* C7: on a fresh table of the full deck each of the first 81 deals returns a
\* card, the deck is empty after exactly the 81st, and every later deal
\* returns None, leaving the deck empty and the board as it was.
C7_DealsExhaustDeck ==
    /\ [](Fresh =>
            /\ ndeals <= 81 => /\ Len(deck) = 81 - ndeals
                               /\ ndeals >= 1 => ret # None
            /\ ndeals > 81 => (deck = <<>> /\ ret = None))
    /\ [][(Fresh /\ ndeals >= 81 /\ ndeals' = ndeals + 1)
            => (ret' = None /\ deck' = <<>> /\ board' = board)]_vars

C7_Witness ==
    /\ Fresh
    /\ ndeals = 82
    /\ ret = None
    /\ deck = <<>>
    /\ Len(board) = 81

DealtCards == Range(board) \cup (IF pc = "match" THEN Range(ret) ELSE {})

NoCardTwice ==
    /\ NoDup(deck)
    /\ NoDup(board)
    /\ DealtCards \cap Range(deck) = {}
    /\ (pc = "match" /\ ret # None) => ret[1] \notin Range(board)

\* C8 as stated: whatever vector Table::new was given, and whatever the seed,
\* the deck holds no card twice, a dealt card is no longer in the deck and no
\* card is on the board twice.
C8_AnyVector ==
    ctor.kind # "none" => NoCardTwice

\* C8 amended: the same, for a table built by new_from_seed or by Table::new
\* from a vector of pairwise different cards.
C8_DistinctVector ==
    (\/ ctor.kind = "new_from_seed"
     \/ (ctor.kind = "new" /\ NoDup(ctor.arg)))
        => NoCardTwice

C8_Witness ==
    /\ ctor.kind = "new_from_seed"
    /\ pc = "match"
    /\ ret # None
    /\ Len(board) = 11

\* C10: a deal from a non-empty deck returns the last card of the deck,
\* shortens the deck by one, keeps the remaining prefix and leaves the board
\* alone.
C10_DealPopsLast ==
    [][(pc = "idle" /\ pc' = "match" /\ deck # <<>>)
         => /\ ret' = Some(deck[Len(deck)])
            /\ Len(deck') = Len(deck) - 1
            /\ deck' = SubSeq(deck, 1, Len(deck) - 1)
            /\ board' = board]_vars

C10_Witness ==
    /\ ctor.kind = "new"
    /\ ctor.arg = <<0, 1, 2>>
    /\ pc = "match"
    /\ ret = Some(2)
    /\ deck = <<0, 1>>
    /\ board = <<>>

====
